---- MODULE Spec2Model ----
(***************************************************************************)
(* Model of rastreador_aprovados.py: the reconciliation of a roster of     *)
(* candidates ("alunos") against an official list, which is either a       *)
(* table (CSV/Excel) or the text of a PDF.                                  *)
(*                                                                         *)
(* A Python str is a sequence of one-character strings.  An accented       *)
(* character is written as one token of two ASCII characters ("i'" is      *)
(* i-acute, "A~" is A-tilde).  A missing pandas cell is NaN.               *)
(***************************************************************************)
EXTENDS Integers, Sequences, FiniteSets, TLC

----------------------------------------------------------------------------
(* Characters *)

NaN == <<"NaN">>

\* Python's None
Nenhum == <<"None">>

isna(v) == v = NaN

\* str(x) of a cell read with dtype=str: the text itself, "nan" for a missing cell
str(v) == IF isna(v) THEN <<"n", "a", "n">> ELSE v

Digitos == {"0", "1", "2", "3", "4", "5", "6", "7", "8", "9"}

\* what the regular expression class \s matches
Brancos == {" ", "\n", "\t"}

\* the order of the code points, which Python's sorted() compares tokens by
Ordem == <<" ", "*", "-", ".",
           "0", "1", "2", "3", "4", "5", "6", "7", "8", "9",
           "A", "B", "C", "D", "E", "F", "G", "H", "I", "J", "K", "L", "M",
           "N", "O", "P", "Q", "R", "S", "T", "U", "V", "W", "X", "Y", "Z",
           "a", "b", "c", "d", "e", "f", "g", "h", "i", "j", "k", "l", "m",
           "n", "o", "p", "q", "r", "s", "t", "u", "v", "w", "x", "y", "z",
           "A~", "C,", "I'", "a~", "c,", "i'">>

ord(c) == CHOOSE i \in 1..Len(Ordem) : Ordem[i] = c

Minusculas == <<"a", "b", "c", "d", "e", "f", "g", "h", "i", "j", "k", "l", "m",
                "n", "o", "p", "q", "r", "s", "t", "u", "v", "w", "x", "y", "z",
                "a~", "c,", "i'">>

Maiusculas == <<"A", "B", "C", "D", "E", "F", "G", "H", "I", "J", "K", "L", "M",
                "N", "O", "P", "Q", "R", "S", "T", "U", "V", "W", "X", "Y", "Z",
                "A~", "C,", "I'">>

\* str.upper(), one character
upper_char(c) ==
    IF \E i \in 1..Len(Minusculas) : Minusculas[i] = c
    THEN Maiusculas[CHOOSE i \in 1..Len(Minusculas) : Minusculas[i] = c]
    ELSE c

\* str.lower(), one character
lower_char(c) ==
    IF \E i \in 1..Len(Maiusculas) : Maiusculas[i] = c
    THEN Minusculas[CHOOSE i \in 1..Len(Maiusculas) : Maiusculas[i] = c]
    ELSE c

\* unidecode(), one character: the diacritic is dropped
unidecode_char(c) ==
    CASE c = "A~" -> "A"
      [] c = "a~" -> "a"
      [] c = "I'" -> "I"
      [] c = "i'" -> "i"
      [] c = "C," -> "C"
      [] c = "c," -> "c"
      [] OTHER -> c

Min(S) == CHOOSE m \in S : \A k \in S : m <= k

Max2(a, b) == IF a >= b THEN a ELSE b

Min2(a, b) == IF a <= b THEN a ELSE b

\* Python's s[a:b] for 0 <= a
slice(s, a, b) == SubSeq(s, a + 1, Min2(b, Len(s)))

\* a search that tolerates one more character at the end of the name: the
\* offset of the name without its last character; C6 does not hold of it
find_tolerante(text, sub) ==
    IF \E i \in 0..(Len(text) - Len(sub) + 1) :
          SubSeq(text, i + 1, i + Len(sub) - 1) = SubSeq(sub, 1, Len(sub) - 1)
    THEN CHOOSE i \in 0..(Len(text) - Len(sub) + 1) :
            /\ SubSeq(text, i + 1, i + Len(sub) - 1) = SubSeq(sub, 1, Len(sub) - 1)
            /\ \A j \in 0..(i - 1) :
                  SubSeq(text, j + 1, j + Len(sub) - 1) # SubSeq(sub, 1, Len(sub) - 1)
    ELSE 0 - 1

\* Python's text.find(sub): the first 0-based offset of sub in text, or -1
find(text, sub) ==
    LET pos == {i \in 0..(Len(text) - Len(sub)) :
                    SubSeq(text, i + 1, i + Len(sub)) = sub}
    IN  IF pos = {} THEN 0 - 1 ELSE Min(pos)

\* Python's "sub in text"
contem(text, sub) == find(text, sub) # 0 - 1

----------------------------------------------------------------------------
(* normalizar_texto *)

\* re.sub(r'\s+', ' ', t): every run of whitespace becomes one space, which
\* leaves a space for the first character of the run and drops the others
colapsar_brancos(t) ==
    LET pares == [i \in 1..Len(t) |-> <<t[i], i > 1 /\ t[i - 1] \in Brancos>>]
        ficam == SelectSeq(pares, LAMBDA par : ~(par[1] \in Brancos /\ par[2]))
    IN  [i \in 1..Len(ficam) |-> IF ficam[i][1] \in Brancos THEN " " ELSE ficam[i][1]]

Max(S) == CHOOSE m \in S : \A k \in S : m >= k

lstrip(t) ==
    LET pretos == {i \in 1..Len(t) : t[i] \notin Brancos}
    IN  IF pretos = {} THEN <<>> ELSE SubSeq(t, Min(pretos), Len(t))

rstrip(t) ==
    LET pretos == {i \in 1..Len(t) : t[i] \notin Brancos}
    IN  IF pretos = {} THEN <<>> ELSE SubSeq(t, 1, Max(pretos))

strip(t) == rstrip(lstrip(t))

normalizar_texto(texto) ==
    IF isna(texto) \/ texto = <<>>
    THEN <<>>
    ELSE LET maiusc == [i \in 1..Len(str(texto)) |-> upper_char(str(texto)[i])]
             texto_limpo == [i \in 1..Len(maiusc) |-> unidecode_char(maiusc[i])]
             sem_quebra == [i \in 1..Len(texto_limpo) |->
                               IF texto_limpo[i] = "\n" THEN " " ELSE texto_limpo[i]]
         IN  strip(colapsar_brancos(sem_quebra))

----------------------------------------------------------------------------
(* limpar_numeros, obter_fragmentos_cpf *)

\* re.sub(r'\D', '', s)
so_digitos(s) == SelectSeq(s, LAMBDA c : c \in Digitos)

limpar_numeros(valor) == IF isna(valor) THEN <<>> ELSE so_digitos(str(valor))

TamanhoCpf == 11

\* a split that accepts 10 digits; C9 does not hold of it
obter_fragmentos_de_10(cpf) ==
    IF Len(limpar_numeros(cpf)) < 10
    THEN <<>>
    ELSE <<slice(limpar_numeros(cpf), 0, 3),
           slice(limpar_numeros(cpf), 3, 6),
           slice(limpar_numeros(cpf), 6, 9),
           slice(limpar_numeros(cpf), 9, 11)>>

obter_fragmentos_cpf(cpf) ==
    LET cpf_limpo == limpar_numeros(cpf)
    IN  IF Len(cpf_limpo) < TamanhoCpf
        THEN <<>>
        ELSE <<slice(cpf_limpo, 0, 3),
               slice(cpf_limpo, 3, 6),
               slice(cpf_limpo, 6, 9),
               slice(cpf_limpo, 9, 11)>>

\* "for frag in fragmentos: if frag in texto: ... break": the first fragment
\* found in texto, or <<>> when none is
primeiro_fragmento(fragmentos, texto) ==
    LET achados == {k \in 1..Len(fragmentos) : contem(texto, fragmentos[k])}
    IN  IF achados = {} THEN <<>> ELSE fragmentos[Min(achados)]

----------------------------------------------------------------------------
(* rapidfuzz: fuzz.token_sort_ratio and process.extractOne *)

RECURSIVE split(_)
\* str.split(): the maximal runs of non-whitespace characters
split(t) ==
    LET s == lstrip(t)
    IN  IF s = <<>> THEN <<>>
        ELSE LET fins == {i \in 1..Len(s) : s[i] \in Brancos}
                 n == IF fins = {} THEN Len(s) ELSE Min(fins) - 1
             IN  <<SubSeq(s, 1, n)>> \o split(SubSeq(s, n + 1, Len(s)))

RECURSIVE menor_str(_, _)
\* a < b for two Python strings
menor_str(a, b) ==
    IF b = <<>> THEN FALSE
    ELSE IF a = <<>> THEN TRUE
    ELSE IF Head(a) # Head(b) THEN ord(Head(a)) < ord(Head(b))
    ELSE menor_str(Tail(a), Tail(b))

RECURSIVE inserir_ordenado(_, _)
inserir_ordenado(tok, lista) ==
    IF lista = <<>> THEN <<tok>>
    ELSE IF menor_str(tok, Head(lista)) THEN <<tok>> \o lista
    ELSE <<Head(lista)>> \o inserir_ordenado(tok, Tail(lista))

RECURSIVE sorted(_)
sorted(lista) ==
    IF lista = <<>> THEN <<>>
    ELSE inserir_ordenado(lista[Len(lista)], sorted(SubSeq(lista, 1, Len(lista) - 1)))

RECURSIVE join(_)
\* " ".join(lista)
join(lista) ==
    IF lista = <<>> THEN <<>>
    ELSE IF Len(lista) = 1 THEN lista[1]
    ELSE lista[1] \o <<" ">> \o join(Tail(lista))

RECURSIVE lcs_linha(_, _, _, _)
\* one row of the longest-common-subsequence table: anterior is row i-1
\* (columns 0..Len(b), stored at 1..Len(b)+1), atual the columns of row i so far
lcs_linha(ai, b, anterior, atual) ==
    LET j == Len(atual)
    IN  IF j > Len(b) THEN atual
        ELSE lcs_linha(ai, b, anterior,
                       Append(atual, IF ai = b[j] THEN anterior[j] + 1
                                     ELSE Max2(anterior[j + 1], atual[j])))

RECURSIVE lcs_tabela(_, _, _, _)
\* (the row is measured before the next one is started, so that it is computed
\* here and not inside the rows that follow)
lcs_tabela(a, b, i, anterior) ==
    IF Len(anterior) = Len(b) + 1 /\ i > Len(a) THEN anterior[Len(b) + 1]
    ELSE lcs_tabela(a, b, i + 1, lcs_linha(a[i], b, anterior, <<0>>))

lcs(a, b) == lcs_tabela(a, b, 1, [j \in 1..(Len(b) + 1) |-> 0])

\* fuzz.ratio: 100 * (1 - indel_distance / (len1 + len2)), where the indel
\* distance is len1 + len2 - 2 * lcs.  The score is the exact fraction
\* <<numerator, denominator>>.
ratio(s1, s2) ==
    IF Len(s1) + Len(s2) = 0 THEN <<100, 1>>
    ELSE <<200 * lcs(s1, s2), Len(s1) + Len(s2)>>

token_sort_ratio(s1, s2) == ratio(join(sorted(split(s1))), join(sorted(split(s2))))

\* score >= t, score > other
score_ge(score, t) == score[1] >= t * score[2]

score_gt(a, b) == a[1] * b[2] > b[1] * a[2]

----------------------------------------------------------------------------
(* carregar_dataframe, identificar_colunas, carregar_texto_pdf *)

\* A table file is [name, columns, rows]; a row holds one cell per column.
\* carregar_dataframe reads every cell as text (dtype=str), a blank one as NaN.
carregar_dataframe(arquivo) == [columns |-> arquivo.columns, linhas |-> arquivo.linhas]

keywords_nome == <<<<"n", "o", "m", "e">>,
                   <<"c", "a", "n", "d", "i", "d", "a", "t", "o">>,
                   <<"a", "l", "u", "n", "o">>,
                   <<"e", "s", "t", "u", "d", "a", "n", "t", "e">>>>

keywords_doc == <<<<"c", "p", "f">>,
                  <<"d", "o", "c">>,
                  <<"i", "n", "s", "c", "r", "i", "c,", "a~", "o">>,
                  <<"i", "n", "s", "c", "r", "i", "c", "a", "o">>,
                  <<"r", "g">>>>

lower(s) == [i \in 1..Len(s) |-> lower_char(s[i])]

\* next((df.columns[i] for i, c in enumerate(cols_lower)
\*       if any(k in c for k in keywords)), None)
primeira_coluna(columns, keywords) ==
    LET achadas == {i \in 1..Len(columns) :
                       \E k \in 1..Len(keywords) : contem(lower(columns[i]), keywords[k])}
    IN  IF achadas = {} THEN Nenhum ELSE columns[Min(achadas)]

\* <<col_nome, col_cpf>>.  Every column is read as text, so the first text
\* column is the first column.
identificar_colunas(df) ==
    LET por_nome == primeira_coluna(df.columns, keywords_nome)
        col_nome == IF por_nome = Nenhum THEN df.columns[1] ELSE por_nome
        col_cpf == primeira_coluna(df.columns, keywords_doc)
    IN  <<col_nome, col_cpf>>

\* "if col", "if not col" for a column name or None
verdadeiro(col) == col # Nenhum /\ col # <<>>

\* row[col]: the cell of the first column of that name
celula(columns, linha, col) ==
    linha[Min({i \in 1..Len(columns) : columns[i] = col})]

RECURSIVE juntar_paginas(_)
\* texto_completo += " " + texto_pagina, for each page that has text
juntar_paginas(paginas) ==
    IF paginas = <<>> THEN <<>>
    ELSE (IF Head(paginas) = <<>> THEN <<>> ELSE <<" ">> \o Head(paginas))
         \o juntar_paginas(Tail(paginas))

\* a PDF file is [name, legivel, paginas]: pdfplumber raises when it cannot
\* open the file, and a page without a text layer has no text
carregar_texto_pdf(arquivo_pdf) ==
    IF ~arquivo_pdf.legivel THEN <<>>
    ELSE normalizar_texto(juntar_paginas(arquivo_pdf.paginas))

\* nome.endswith(ext)
endswith(nome, ext) ==
    Len(nome) >= Len(ext) /\ SubSeq(nome, Len(nome) - Len(ext) + 1, Len(nome)) = ext

----------------------------------------------------------------------------
(* Bounds and the inputs the model draws *)

\* rows read from the candidates' file before it ends
MaxAlunos == 2

\* rows of the official table
MaxOficial == 2

\* characters of a document handed to obter_fragmentos_cpf on its own
MaxDocLen == 13

RECURSIVE SeqAte(_, _)
\* the sequences of at most n elements of S
SeqAte(S, n) ==
    IF n = 0 THEN {<<>>}
    ELSE LET menores == SeqAte(S, n - 1)
         IN  menores \cup {Append(q, x) : q \in {m \in menores : Len(m) = n - 1}, x \in S}

MariaSilva == <<"M", "A", "R", "I", "A", " ", "S", "I", "L", "V", "A">>

Cpf1 == <<"1", "1", "1", ".", "2", "2", "2", ".", "3", "3", "3", "-", "4", "4">>

Cpf9 == <<"9", "8", "7", "6", "5", "4", "3", "2", "1", "0", "0">>

ColNome == <<"N", "o", "m", "e">>

ColCpf == <<"C", "P", "F">>

ColCurso == <<"C", "u", "r", "s", "o">>

\* rows of a candidates' file whose columns are Nome, CPF
LinhasComCpf ==
    { <<MariaSilva, Cpf1>>,
      <<MariaSilva, Cpf9>>,
      <<<<"M", "a", "r", "i'", "a", " ", " ", "S", "i", "l", "v", "a">>,
        <<"1", "2", "3", "4", "5", "6">>>>,
      <<<<"M", "A", "R", "I", "A", " ", "S", "I", "L", "V", "A", "S">>,
        <<"1", "2", "3", "4", "5", "6">>>>,
      <<<<"M", "A", "R", "I", " ", "S", "I", "L", "V">>, Cpf9>>,
      <<<<"M", "A", "R", "I", "A", " ", "S", "E", "L", "V", "A", "S">>, NaN>>,
      <<<<"M", "A", "R", "I", "A", " ", "D", "A", " ", "S", "I", "L", "V", "A">>, Cpf1>>,
      <<<<"A", "N", "A", " ", "B", "E", "A", "T", "R", "E", "S", " ",
          "C", "O", "R", "V", "A", "L", "H", "O">>,
        <<"5", "5", "5", ".", "0", "0", "0", ".", "0", "0", "0", "-", "0", "0">>>>,
      <<<<"A", "N", "A", " ", "B", "E", "A", "T", "R", "I", "Z", " ",
          "C", "A", "R", "V", "A", "L", "L", "O">>, Cpf9>>,
      <<<<"R", "i", "a">>, Cpf1>>,
      <<NaN, NaN>> }

\* the rows of a candidates' file with these columns
LinhasAlunos(columns) ==
    IF columns[2] = ColCpf THEN LinhasComCpf
    ELSE {<<l[1], <<"A", "D", "S">>>> : l \in LinhasComCpf}

ArquivosAlunos ==
    { [name |-> <<"a", ".", "c", "s", "v">>, columns |-> c] :
        c \in {<<ColNome, ColCpf>>, <<ColNome, ColCurso>>} }

\* rows of an official table of two columns
LinhasOficiais ==
    { <<NaN, Cpf1>>,
      <<<<"M", "a", "r", "i", "a", " ", "S", "i", "l", "v", "a">>,
        <<"*", "*", "*", ".", "2", "2", "2", ".", "3", "3", "3", "-", "*", "*">>>>,
      <<<<"A", "n", "a", " ", "B", "e", "a", "t", "r", "i", "z", " ",
          "C", "a", "r", "v", "a", "l", "h", "o">>,
        <<"5", "5", "5", ".", "6", "6", "6", ".", "7", "7", "7", "-", "8", "8">>>> }

ColunasOficiais ==
    { <<<<"C", "a", "n", "d", "i", "d", "a", "t", "o">>,
        <<"D", "o", "c", "u", "m", "e", "n", "t", "o">>>>,
      <<<<"P", "a", "r", "t", "i", "c", "i", "p", "a", "n", "t", "e">>,
        <<"N", "o", "t", "a">>>> }

ArquivosTabela ==
    { [name |-> <<"L", ".", "c", "s", "v">>, columns |-> c, linhas |-> l,
       legivel |-> TRUE, paginas |-> <<>>] :
        c \in ColunasOficiais, l \in SeqAte(LinhasOficiais, MaxOficial) }

Enchimento(n) == [i \in 1..n |-> "x"]

\* two pages: a document, g1 characters, the name, g2 characters, a document
PaginasJanela(g1, g2) ==
    << <<"1", "1", "1", "2", "2", "2", "3", "3", "3", "4", "4", "\n">>
         \o Enchimento(g1 - 2),
       <<"M", "a", "r", "i", "a", " ", "S", "i", "l", "v", "a", " ">>
         \o Enchimento(g2 - 2) \o <<"\t">> \o Cpf9 >>

PaginasPdf ==
    { << <<>> >>,
      << <<"1", "1", "1", " ", "2", "2", "2", " ", "3", "3", "3", " ", "4", "4", " ",
           "M", "a", "r", "i", "a", " ", " ", "S", "i", "l", "v", "a", "\n">> >> }
    \cup { PaginasJanela(g1, g2) :
             g1 \in {48, 49}, g2 \in {47, 48} }

ArquivosPdf ==
    { [name |-> <<"L", ".", "P", "D", "F">>, columns |-> <<>>, linhas |-> <<>>,
       legivel |-> TRUE, paginas |-> p] : p \in PaginasPdf }
    \cup { [name |-> <<"l", ".", "p", "d", "f">>, columns |-> <<>>, linhas |-> <<>>,
            legivel |-> FALSE, paginas |-> <<>>] }

----------------------------------------------------------------------------
(* The texts and names of the inputs above, normalized and scored once *)

TextosConhecidos ==
    {l[1] : l \in LinhasComCpf} \cup {str(l[1]) : l \in LinhasComCpf}
    \cup {l[1] : l \in LinhasOficiais}

\* the pairs <<text, normalizar_texto(text)>>
MemoNormalizar == {<<t, normalizar_texto(t)>> : t \in TextosConhecidos}

\* normalizar_texto(texto), looked up when the text is a known one
normalizar(texto) ==
    IF texto \in TextosConhecidos
    THEN (CHOOSE par \in MemoNormalizar : par[1] = texto)[2]
    ELSE normalizar_texto(texto)

NomesConhecidos == {par[2] : par \in MemoNormalizar}

\* the triples <<name, name, token_sort_ratio of the two>>
MemoScores ==
    {<<s1, s2, token_sort_ratio(s1, s2)>> : s1 \in NomesConhecidos, s2 \in NomesConhecidos}

\* scorer=fuzz.token_sort_ratio, looked up when both names are known ones
scorer(s1, s2) ==
    IF s1 \in NomesConhecidos /\ s2 \in NomesConhecidos
    THEN (CHOOSE tri \in MemoScores : tri[1] = s1 /\ tri[2] = s2)[3]
    ELSE token_sort_ratio(s1, s2)

\* the best match so far, after a choice of this score at 0-based index i
melhor_apos(melhor, choice, score, score_cutoff, i) ==
    IF score_ge(score, score_cutoff) /\ (melhor = Nenhum \/ score_gt(score, melhor[2]))
    THEN <<choice, score, i>>
    ELSE melhor

RECURSIVE extract_one(_, _, _, _, _)
\* process.extractOne(query, choices, scorer=token_sort_ratio, score_cutoff):
\* the first choice of the highest score among those scoring at least the
\* cutoff, as <<choice, score, 0-based index>>, or None
extract_one(query, choices, score_cutoff, i, melhor) ==
    IF i > Len(choices) THEN melhor
    ELSE extract_one(query, choices, score_cutoff, i + 1,
                     melhor_apos(melhor, choices[i], scorer(query, choices[i]),
                                 score_cutoff, i - 1))

extractOne(query, choices, score_cutoff) ==
    extract_one(query, choices, score_cutoff, 1, Nenhum)

----------------------------------------------------------------------------
(* State *)

VARIABLES
    pc,                       \* "inicio", "texto" (route A), "tabela" (route B), "fim"
    arquivo_alunos,           \* the candidates' file
    arquivo_lista,            \* the official list's file
    usar_cpf,                 \* document validation requested
    col_nome_aluno,
    col_cpf_aluno,
    col_nome_lista,
    col_cpf_lista,
    df_oficial,               \* rows of the official table
    lista_nomes_oficial_norm,
    lista_nomes_oficial_orig,
    texto_pdf,                \* the normalized text of the PDF
    n_linhas,                 \* candidate rows iterated so far
    row,                      \* the candidate row of the last iteration
    loc,                      \* the locals of the last iteration
    resultados,
    retorno,                  \* the DataFrame returned
    cpf,                      \* obter_fragmentos_cpf on its own: the argument
    fragmentos                \* and the value returned

vars == <<pc, arquivo_alunos, arquivo_lista, usar_cpf, col_nome_aluno, col_cpf_aluno,
          col_nome_lista, col_cpf_lista, df_oficial, lista_nomes_oficial_norm,
          lista_nomes_oficial_orig, texto_pdf, n_linhas, row, loc, resultados,
          retorno, cpf, fragmentos>>

entradas == <<arquivo_alunos, arquivo_lista, usar_cpf>>

identificadas == <<col_nome_aluno, col_cpf_aluno, col_nome_lista, col_cpf_lista>>

oficial == <<df_oficial, lista_nomes_oficial_norm, lista_nomes_oficial_orig, texto_pdf>>

fragmentador == <<cpf, fragmentos>>

\* the statuses, written without their leading symbol
EmAnalise == "Em analise"

Aprovado == "Aprovado"

VerificarHomonimo == "Verificar Homonimo"

VerificarGrafia == "Verificar grafia"

AprovadoConfirmado == "Aprovado (Confirmado)"

VerificarCpfDivergente == "Verificar (CPF Divergente)"

AprovadoNomeEncontrado == "Aprovado (Nome encontrado)"

\* a DataFrame of one column and one row
DataFrame1(coluna, mensagem) == [colunas |-> coluna, linhas |-> <<mensagem>>]

SemRetorno == [colunas |-> "", linhas |-> <<>>]

SemLocais == [passo |-> "nenhum"]

Init ==
    /\ pc = "inicio"
    /\ arquivo_alunos \in ArquivosAlunos
    /\ arquivo_lista \in ArquivosTabela \cup ArquivosPdf
    /\ usar_cpf \in BOOLEAN
    /\ col_nome_aluno = Nenhum
    /\ col_cpf_aluno = Nenhum
    /\ col_nome_lista = Nenhum
    /\ col_cpf_lista = Nenhum
    /\ df_oficial = <<>>
    /\ lista_nomes_oficial_norm = <<>>
    /\ lista_nomes_oficial_orig = <<>>
    /\ texto_pdf = <<>>
    /\ n_linhas = 0
    /\ row = <<>>
    /\ loc = SemLocais
    /\ resultados = <<>>
    /\ retorno = SemRetorno
    /\ cpf = NaN
    /\ fragmentos = <<>>

----------------------------------------------------------------------------
(* processar_conferencia, up to the loop of its route *)

\* df[col].dropna(): the cells of the column that are not missing
dropna(columns, linhas, col) ==
    SelectSeq([i \in 1..Len(linhas) |-> celula(columns, linhas[i], col)],
              LAMBDA v : ~isna(v))

Iniciar ==
    /\ pc = "inicio"
    /\ LET df_alunos == carregar_dataframe([columns |-> arquivo_alunos.columns,
                                            linhas |-> <<>>])
           cols_alunos == identificar_colunas(df_alunos)
           nome_arquivo_lista == lower(arquivo_lista.name)
       IN  /\ col_nome_aluno' = cols_alunos[1]
           /\ col_cpf_aluno' = cols_alunos[2]
           /\ IF ~verdadeiro(cols_alunos[1])
              THEN /\ retorno' = DataFrame1("Erro", "Nao identifiquei a coluna de nomes no arquivo de alunos.")
                   /\ pc' = "fim"
                   /\ UNCHANGED <<col_nome_lista, col_cpf_lista, oficial>>
              ELSE IF endswith(nome_arquivo_lista, <<".", "p", "d", "f">>)
              THEN LET texto == carregar_texto_pdf(arquivo_lista)
                   IN  /\ texto_pdf' = texto
                       /\ IF texto = <<>>
                          THEN /\ retorno' = DataFrame1("Erro", "PDF ilegivel (pode ser imagem).")
                               /\ pc' = "fim"
                          ELSE /\ retorno' = retorno
                               /\ pc' = "texto"
                       /\ UNCHANGED <<col_nome_lista, col_cpf_lista, df_oficial,
                                      lista_nomes_oficial_norm, lista_nomes_oficial_orig>>
              ELSE LET df == carregar_dataframe(arquivo_lista)
                       cols_lista == identificar_colunas(df)
                       nomes == dropna(df.columns, df.linhas, cols_lista[1])
                   IN  /\ df_oficial' = df.linhas
                       /\ col_nome_lista' = cols_lista[1]
                       /\ col_cpf_lista' = cols_lista[2]
                       /\ lista_nomes_oficial_norm' =
                              [i \in 1..Len(nomes) |-> normalizar(nomes[i])]
                       /\ lista_nomes_oficial_orig' = nomes
                       /\ pc' = "tabela"
                       /\ UNCHANGED <<texto_pdf, retorno>>
    /\ UNCHANGED <<entradas, n_linhas, row, loc, resultados, fragmentador>>

----------------------------------------------------------------------------
(* The report: rows, and DataFrame.sort_values(by="Status") *)

\* the position of a status among the statuses, in the order of their strings
\* (the warning sign sorts before the check mark, the check mark before the
\* magnifying glass)
ordem_status(status) ==
    CASE status = VerificarCpfDivergente -> 1
      [] status = VerificarHomonimo -> 2
      [] status = Aprovado -> 3
      [] status = AprovadoConfirmado -> 4
      [] status = AprovadoNomeEncontrado -> 5
      [] status = VerificarGrafia -> 6
      [] OTHER -> 7

\* the orders sort_values may leave the rows in: ascending by status, rows of
\* one status in any order (the default sort is not stable)
sort_values(linhas) ==
    { [i \in 1..Len(linhas) |-> linhas[p[i]]] : p \in
        { q \in Permutations(1..Len(linhas)) :
            \A i, j \in 1..Len(linhas) :
                i < j => ordem_status(linhas[q[i]].status) <= ordem_status(linhas[q[j]].status) } }

\* a return without "if not resultados": the rows, sorted, even when there are
\* none; C2 does not hold of it
devolver_sem_aviso(linhas, mensagem) ==
    {[colunas |-> "linhas", linhas |-> ordenadas] : ordenadas \in sort_values(linhas)}

\* "if not resultados: return pd.DataFrame({"Resultado": [mensagem]})" and
\* "return pd.DataFrame(resultados).sort_values(by="Status")": the DataFrames
\* that may be returned
devolver(linhas, mensagem) ==
    IF linhas = <<>>
    THEN {DataFrame1("Resultado", mensagem)}
    ELSE {[colunas |-> "linhas", linhas |-> ordenadas] : ordenadas \in sort_values(linhas)}

\* f"{score:.1f}%": the score in tenths, rounded half to even
formatar_1f(score) ==
    LET q == (10 * score[1]) \div score[2]
        r == (10 * score[1]) % score[2]
        decimos == IF 2 * r > score[2] \/ (2 * r = score[2] /\ q % 2 = 1) THEN q + 1 ELSE q
    IN  <<decimos, 1>>

\* f"{score}%" of an int: no decimals
formatar_int(score) == <<score, 0>>

----------------------------------------------------------------------------
(* Route A: buscar_em_texto_corrido *)

\* a minimum that lets names of 3 characters through; C8 does not hold of it
TamanhoMinimoNomeCurto == 4 - 1

TamanhoMinimoNome == 4

\* a window one character wider on each side; C7 does not hold of it
JanelaContextoLarga == 50 + 1

\* characters of context kept on each side of the name found
JanelaContexto == 50

\* the locals one iteration of the loop over the candidates ends with
locais_texto(passo, nome_original, nome_busca, index_encontrado, valida, frags, contexto_numerico, status, obs) ==
    [passo |-> passo, nome_original |-> nome_original, nome_busca |-> nome_busca,
     index_encontrado |-> index_encontrado, match_encontrado |-> status # "",
     score |-> IF status # "" THEN 100 ELSE 0, status |-> status, obs |-> obs,
     valida |-> valida, fragmentos |-> frags, contexto_numerico |-> contexto_numerico]

\* the context window around a name found, digits only
contexto_numerico_de(index_encontrado, nome_busca) ==
    so_digitos(slice(texto_pdf,
                     Max2(0, index_encontrado - JanelaContexto),
                     Min2(Len(texto_pdf),
                          index_encontrado + Len(nome_busca) + JanelaContexto)))

\* "if match_cpf: ... else: ...", with the first fragment found in the context
validar_fragmento(nome_original, nome_busca, index_encontrado, frags, contexto_numerico, frag_encontrado) ==
    IF frag_encontrado # <<>>
    THEN locais_texto("avaliado", nome_original, nome_busca, index_encontrado, TRUE, frags,
                      contexto_numerico, AprovadoConfirmado,
                      <<"Nome encontrado e parte do CPF identificada proxima.",
                        frag_encontrado>>)
    ELSE locais_texto("avaliado", nome_original, nome_busca, index_encontrado, TRUE, frags,
                      contexto_numerico, VerificarCpfDivergente,
                      <<"Nome encontrado, mas nenhum trecho do CPF foi achado por perto.">>)

\* "if fragmentos: ... else: ...", with the context window of the name
validar_contexto(nome_original, nome_busca, index_encontrado, frags, contexto_numerico) ==
    IF frags # <<>>
    THEN validar_fragmento(nome_original, nome_busca, index_encontrado, frags,
                           contexto_numerico, primeiro_fragmento(frags, contexto_numerico))
    ELSE locais_texto("avaliado", nome_original, nome_busca, index_encontrado, TRUE, frags,
                      <<>>, AprovadoNomeEncontrado,
                      <<"CPF do aluno invalido/incompleto, validado apenas por nome.">>)

\* "if index_encontrado != -1: ...", with the offset of the name in the text
buscar_indice(linha, nome_original, nome_busca, index_encontrado) ==
    IF index_encontrado = 0 - 1
    THEN locais_texto("avaliado", nome_original, nome_busca, index_encontrado, FALSE, <<>>,
                      <<>>, "", <<"">>)
    ELSE IF usar_cpf /\ verdadeiro(col_cpf_aluno)
    THEN validar_contexto(nome_original, nome_busca, index_encontrado,
                          obter_fragmentos_cpf(celula(arquivo_alunos.columns, linha,
                                                      col_cpf_aluno)),
                          contexto_numerico_de(index_encontrado, nome_busca))
    ELSE locais_texto("avaliado", nome_original, nome_busca, index_encontrado, FALSE, <<>>,
                      <<>>, AprovadoNomeEncontrado, <<"Validacao feita apenas por nome.">>)

\* "if len(nome_busca) < 4: continue", with the normalized name
buscar_nome(linha, nome_original, nome_busca) ==
    IF Len(nome_busca) < TamanhoMinimoNome
    THEN locais_texto("continue", nome_original, nome_busca, 0 - 1, FALSE, <<>>, <<>>,
                      "", <<"">>)
    ELSE buscar_indice(linha, nome_original, nome_busca, find(texto_pdf, nome_busca))

\* one iteration of the loop over the candidates
buscar_linha(linha) ==
    buscar_nome(linha,
                celula(arquivo_alunos.columns, linha, col_nome_aluno),
                normalizar(celula(arquivo_alunos.columns, linha, col_nome_aluno)))

linha_texto(l) ==
    [aluno |-> l.nome_original, nome |-> l.nome_busca,
     similaridade |-> formatar_int(l.score), status |-> l.status, obs |-> l.obs]

IterarTexto ==
    /\ pc = "texto"
    /\ n_linhas < MaxAlunos
    /\ \E linha \in LinhasAlunos(arquivo_alunos.columns) :
          /\ row' = linha
          /\ loc' = buscar_linha(linha)
          /\ resultados' = IF loc'.match_encontrado
                           THEN Append(resultados, linha_texto(loc'))
                           ELSE resultados
    /\ n_linhas' = n_linhas + 1
    /\ UNCHANGED <<pc, entradas, identificadas, oficial, retorno, fragmentador>>

\* the rows of the candidates' file are exhausted
RetornarTexto ==
    /\ pc = "texto"
    /\ retorno' \in devolver(resultados, "Nenhum aluno encontrado no arquivo enviado.")
    /\ pc' = "fim"
    /\ UNCHANGED <<entradas, identificadas, oficial, n_linhas, row, loc, resultados,
                   fragmentador>>

----------------------------------------------------------------------------
(* Route B: the loop of processar_conferencia over the official table *)

ScoreCutoff == 85

\* a score that would let a candidate of score 90 through without a matching
\* document; C4 does not hold of it
LimiarSobreposicaoFrouxo == 98 - 8

LimiarSobreposicao == 98

LimiarAprovado == 95

\* a threshold that leaves out the score 88; C5 does not hold of it
LimiarGrafiaEstrito == 88 + 1

LimiarGrafia == 88

\* the locals one iteration of the loop over the candidates ends with
locais_tabela(passo, nome_aluno_real, nome_aluno_busca, match, valida, doc_aluno, doc_lista, match_doc, decisao) ==
    [passo |-> passo, nome_aluno_real |-> nome_aluno_real,
     nome_aluno_busca |-> nome_aluno_busca, match |-> match,
     nome_encontrado_real |-> IF match = Nenhum THEN <<>>
                              ELSE lista_nomes_oficial_orig[match[3] + 1],
     status |-> decisao[1], adicionar |-> decisao[2], obs |-> decisao[3],
     valida |-> valida, doc_aluno |-> doc_aluno, doc_lista |-> doc_lista,
     match_doc |-> match_doc]

\* <<status, adicionar, obs>> when the documents are compared
decidir_com_documento(score, match_doc) ==
    IF match_doc
    THEN <<Aprovado, TRUE, <<"Nome e Documento conferem.">>>>
    ELSE <<VerificarHomonimo, score_ge(score, LimiarSobreposicao),
           <<"Nome bate, mas documento diverge.">>>>

\* <<status, adicionar, obs>> when only the names are compared
decidir_sem_documento(score) ==
    IF score_ge(score, LimiarAprovado) THEN <<Aprovado, TRUE, <<"">>>>
    ELSE IF score_ge(score, LimiarGrafia) THEN <<VerificarGrafia, TRUE, <<"">>>>
    ELSE <<EmAnalise, FALSE, <<"">>>>

\* "for frag in fragmentos: if frag in doc_lista: match_doc = True"
documento_confere(doc_aluno, doc_lista) ==
    primeiro_fragmento(obter_fragmentos_cpf(doc_aluno), doc_lista) # <<>>

\* the branch that compares the documents, with the two documents
conferir_documento(nome_aluno_real, nome_aluno_busca, match, doc_aluno, doc_lista, match_doc) ==
    locais_tabela("avaliado", nome_aluno_real, nome_aluno_busca, match, TRUE, doc_aluno,
                  doc_lista, match_doc, decidir_com_documento(match[2], match_doc))

\* the document of the official row at the match's index, digits only
doc_lista_de(index_match) ==
    limpar_numeros(celula(arquivo_lista.columns, df_oficial[index_match + 1], col_cpf_lista))

conferir_documentos(nome_aluno_real, nome_aluno_busca, match, doc_aluno, doc_lista) ==
    conferir_documento(nome_aluno_real, nome_aluno_busca, match, doc_aluno, doc_lista,
                       documento_confere(doc_aluno, doc_lista))

\* "if match: ...", with the result of extractOne
conferir_match(linha, nome_aluno_real, nome_aluno_busca, match) ==
    IF match = Nenhum
    THEN locais_tabela("sem_match", nome_aluno_real, nome_aluno_busca, match, FALSE, <<>>,
                       <<>>, FALSE, <<EmAnalise, FALSE, <<"">>>>)
    ELSE IF usar_cpf /\ verdadeiro(col_cpf_aluno) /\ verdadeiro(col_cpf_lista)
    THEN conferir_documentos(nome_aluno_real, nome_aluno_busca, match,
                             limpar_numeros(celula(arquivo_alunos.columns, linha,
                                                   col_cpf_aluno)),
                             doc_lista_de(match[3]))
    ELSE locais_tabela("avaliado", nome_aluno_real, nome_aluno_busca, match, FALSE, <<>>,
                       <<>>, FALSE, decidir_sem_documento(match[2]))

\* "if len(nome_aluno_busca) < 4: continue", with the normalized name
conferir_nome(linha, nome_aluno_real, nome_aluno_busca) ==
    IF Len(nome_aluno_busca) < TamanhoMinimoNome
    THEN locais_tabela("continue", nome_aluno_real, nome_aluno_busca, Nenhum, FALSE, <<>>,
                       <<>>, FALSE, <<EmAnalise, FALSE, <<"">>>>)
    ELSE conferir_match(linha, nome_aluno_real, nome_aluno_busca,
                        extractOne(nome_aluno_busca, lista_nomes_oficial_norm, ScoreCutoff))

\* one iteration of the loop over the candidates
conferir_linha(linha) ==
    conferir_nome(linha,
                  str(celula(arquivo_alunos.columns, linha, col_nome_aluno)),
                  normalizar(str(celula(arquivo_alunos.columns, linha, col_nome_aluno))))

linha_tabela(l) ==
    [aluno |-> l.nome_aluno_real, nome |-> l.nome_encontrado_real,
     similaridade |-> formatar_1f(l.match[2]), status |-> l.status, obs |-> l.obs]

IterarTabela ==
    /\ pc = "tabela"
    /\ n_linhas < MaxAlunos
    /\ \E linha \in LinhasAlunos(arquivo_alunos.columns) :
          /\ row' = linha
          /\ loc' = conferir_linha(linha)
          /\ resultados' = IF loc'.adicionar
                           THEN Append(resultados, linha_tabela(loc'))
                           ELSE resultados
    /\ n_linhas' = n_linhas + 1
    /\ UNCHANGED <<pc, entradas, identificadas, oficial, retorno, fragmentador>>

\* the rows of the candidates' file are exhausted
RetornarTabela ==
    /\ pc = "tabela"
    /\ retorno' \in devolver(resultados, "Nenhum match encontrado.")
    /\ pc' = "fim"
    /\ UNCHANGED <<entradas, identificadas, oficial, n_linhas, row, loc, resultados,
                   fragmentador>>

Next == Iniciar \/ IterarTexto \/ RetornarTexto \/ IterarTabela \/ RetornarTabela

Spec == Init /\ [][Next]_vars

----------------------------------------------------------------------------
(* obter_fragmentos_cpf on its own *)

DigitoDe == <<"1", "2", "3", "4", "5", "6", "7", "8", "9", "0">>

\* the documents of n characters whose i-th character is the digit of its
\* position or a separator
DocumentosDe(n) ==
    { [i \in 1..n |-> IF m[i] THEN DigitoDe[((i - 1) % 10) + 1] ELSE "."] :
        m \in [1..n -> BOOLEAN] }

InitFragmentos ==
    /\ pc = "cpf"
    /\ \/ cpf \in {NaN, Cpf1, Cpf9}
       \/ \E n \in 0..MaxDocLen : cpf \in DocumentosDe(n)
    /\ fragmentos = Nenhum
    /\ arquivo_alunos = [name |-> <<>>, columns |-> <<>>]
    /\ arquivo_lista = [name |-> <<>>, columns |-> <<>>, linhas |-> <<>>,
                        legivel |-> FALSE, paginas |-> <<>>]
    /\ usar_cpf = FALSE
    /\ col_nome_aluno = Nenhum
    /\ col_cpf_aluno = Nenhum
    /\ col_nome_lista = Nenhum
    /\ col_cpf_lista = Nenhum
    /\ df_oficial = <<>>
    /\ lista_nomes_oficial_norm = <<>>
    /\ lista_nomes_oficial_orig = <<>>
    /\ texto_pdf = <<>>
    /\ n_linhas = 0
    /\ row = <<>>
    /\ loc = SemLocais
    /\ resultados = <<>>
    /\ retorno = SemRetorno

Fragmentar ==
    /\ pc = "cpf"
    /\ fragmentos' = obter_fragmentos_cpf(cpf)
    /\ pc' = "cpf_fim"
    /\ UNCHANGED <<cpf, entradas, identificadas, oficial, n_linhas, row, loc, resultados,
                   retorno>>

NextFragmentos == Fragmentar

SpecFragmentos == InitFragmentos /\ [][NextFragmentos]_vars

----------------------------------------------------------------------------
(* What the properties below speak of *)

\* the official list is a PDF: route A
RotaTexto == endswith(lower(arquivo_lista.name), <<".", "p", "d", "f">>)

\* a step that is one iteration of the loop of route B, of route A
PassoTabela == pc = "tabela" /\ pc' = "tabela" /\ n_linhas' = n_linhas + 1

PassoTexto == pc = "texto" /\ pc' = "texto" /\ n_linhas' = n_linhas + 1

\* the step added exactly one row to the rows of the report, or none
Emitiu ==
    /\ Len(resultados') = Len(resultados) + 1
    /\ SubSeq(resultados', 1, Len(resultados)) = resultados

NaoEmitiu == resultados' = resultados

Nova == resultados'[Len(resultados')]

\* the candidate of the step: its name cell, its document cell
NomeDoPasso == celula(arquivo_alunos.columns, row', col_nome_aluno)

DocumentoDoPasso == celula(arquivo_alunos.columns, row', col_cpf_aluno)

\* document validation is active on route B
ValidacaoTabela == usar_cpf /\ verdadeiro(col_cpf_aluno) /\ verdadeiro(col_cpf_lista)

\* the pairs <<position, score>> of a normalized name against the official
\* names that are not missing, in the order of the table
ParesDe(nome) ==
    {<<i, scorer(nome, lista_nomes_oficial_norm[i])>> :
        i \in 1..Len(lista_nomes_oficial_norm)}

\* the best match among such pairs: the first of the pairs of the highest score,
\* when that score is at least 85, and None otherwise
MelhorEntre(pares) ==
    IF \A p \in pares : ~score_ge(p[2], 85)
    THEN Nenhum
    ELSE CHOOSE p \in pares :
            \A q \in pares : score_gt(p[2], q[2]) \/ (~score_gt(q[2], p[2]) /\ p[1] <= q[1])

\* the best match of a normalized name among the official names
MelhorDe(nome) == CHOOSE melhor \in {MelhorEntre(pares) : pares \in {ParesDe(nome)}} : TRUE

\* the row of the official table that holds the k-th name that is not missing
LinhaDoNome(k) ==
    LET nomeDe(j) == celula(arquivo_lista.columns, df_oficial[j], col_nome_lista)
        j == CHOOSE c \in 1..Len(df_oficial) :
                /\ ~isna(nomeDe(c))
                /\ Cardinality({b \in 1..c : ~isna(nomeDe(b))}) = k
    IN  df_oficial[j]

DocumentoDaLinha(linha) == limpar_numeros(celula(arquivo_lista.columns, linha, col_cpf_lista))

\* the 0-based offsets at which a name occurs verbatim in the text
Ocorrencias(nome) ==
    {i \in 0..(Len(texto_pdf) - Len(nome)) : SubSeq(texto_pdf, i + 1, i + Len(nome)) = nome}

\* the digits of the text between two 0-based offsets, the second excluded
DigitosEntre(inicio, fim) ==
    SelectSeq(SubSeq(texto_pdf, inicio + 1, fim),
              LAMBDA c : c \in {"0", "1", "2", "3", "4", "5", "6", "7", "8", "9"})

\* document validation is active on route A
ValidacaoTexto == usar_cpf /\ verdadeiro(col_cpf_aluno)

\* some fragment of the candidate's document is a substring of the digits
Confere(documento, digitos) ==
    \E frags \in {obter_fragmentos_cpf(documento)} :
        \E k \in 1..Len(frags) :
            \E i \in 0..(Len(digitos) - Len(frags[k])) :
                SubSeq(digitos, i + 1, i + Len(frags[k])) = frags[k]

----------------------------------------------------------------------------
(* Properties *)

\* the document column was not identified on a side the route needs
ColunaExigidaAusente ==
    IF RotaTexto
    THEN ~verdadeiro(col_cpf_aluno)
    ELSE ~verdadeiro(col_cpf_aluno) \/ ~verdadeiro(col_cpf_lista)

\* C1: when document validation is requested and the document column cannot
\* be identified on a side the route needs, no per-candidate row is produced
\* and the report returned is a single error row.
C1_RecusaSemColuna ==
    (pc # "inicio" /\ usar_cpf /\ ColunaExigidaAusente)
        => /\ resultados = <<>>
           /\ pc = "fim" => (retorno.colunas = "Erro" /\ Len(retorno.linhas) = 1)

\* the loop over the candidates was reached
LacoExecutado == verdadeiro(col_nome_aluno) /\ (RotaTexto => texto_pdf # <<>>)

\* C2: every report returned has at least one row, and when the loop over the
\* candidates added no row the report is the single informational row, which
\* is not an error row.
C2_RelatorioNuncaVazio ==
    pc = "fim"
        => /\ Len(retorno.linhas) >= 1
           /\ (LacoExecutado /\ resultados = <<>>)
                 => /\ retorno.colunas = "Resultado"
                    /\ Len(retorno.linhas) = 1
           /\ (LacoExecutado /\ resultados # <<>>)
                 => /\ retorno.colunas = "linhas"
                    /\ Len(retorno.linhas) = Len(resultados)

\* C2, reached: an empty candidates' file on route B returns the informational row
C2_Witness ==
    /\ pc = "fim"
    /\ ~RotaTexto
    /\ n_linhas = 0
    /\ retorno = DataFrame1("Resultado", "Nenhum match encontrado.")

\* C10: on route B with document validation active, the official document
\* compared and the official name reported are those of the row whose name was
\* selected as the best match.
C10_DocumentoDaLinhaCasada ==
    (pc \in {"tabela", "fim"} /\ loc.passo = "avaliado" /\ loc.valida /\ ~RotaTexto)
        => /\ loc.doc_lista = DocumentoDaLinha(LinhaDoNome(loc.match[3] + 1))
           /\ loc.nome_encontrado_real =
                  celula(arquivo_lista.columns, LinhaDoNome(loc.match[3] + 1), col_nome_lista)

\* C3: on route B with document validation active, a candidate with a match
\* is "Aprovado" when one of its fragments is in the document of the matched
\* official row and "Verificar Homonimo" otherwise, and its row is emitted
\* exactly when a fragment matched or the score is at least 98.
C3_DecisaoComDocumento ==
    [][ (PassoTabela /\ ValidacaoTabela)
        => \A nome \in {normalizar(str(NomeDoPasso))} :
           \A melhor \in {MelhorDe(nome)} :
              (Len(nome) >= 4 /\ melhor # Nenhum)
              => \A confere \in {Confere(DocumentoDoPasso,
                                         DocumentoDaLinha(LinhaDoNome(melhor[1])))} :
                    /\ loc'.status = IF confere THEN Aprovado ELSE VerificarHomonimo
                    /\ Emitiu <=> (confere \/ score_ge(melhor[2], 98))
                    /\ NaoEmitiu <=> ~(confere \/ score_ge(melhor[2], 98))
                    /\ Emitiu => Nova.status = loc'.status ]_vars

\* C4 as stated: on route B with document validation active, a candidate of
\* score 90 none of whose fragments is in the document of the matched official
\* row gets a row of status "Verificar Homonimo".
C4_LinhaNaoSuprimida ==
    [][ (PassoTabela /\ ValidacaoTabela)
        => \A nome \in {normalizar(str(NomeDoPasso))} :
           \A melhor \in {MelhorDe(nome)} :
              (/\ Len(nome) >= 4
               /\ melhor # Nenhum
               /\ melhor[2][1] = 90 * melhor[2][2]
               /\ ~Confere(DocumentoDoPasso, DocumentoDaLinha(LinhaDoNome(melhor[1]))))
              => (Emitiu /\ Nova.status = VerificarHomonimo) ]_vars

\* C4: on route B with document validation active, a candidate of score 90
\* none of whose fragments is in the official document it is compared with
\* (the one at the position of the match in the whole table) is given the
\* status "Verificar Homonimo" and no row: 90 is below the score of 98 that
\* lets a row without a matching document through.
C4_LinhaSuprimida ==
    [][ (PassoTabela /\ ValidacaoTabela)
        => \A nome \in {normalizar(str(NomeDoPasso))} :
           \A melhor \in {MelhorDe(nome)} :
              (/\ Len(nome) >= 4
               /\ melhor # Nenhum
               /\ melhor[2][1] = 90 * melhor[2][2]
               /\ ~Confere(DocumentoDoPasso, DocumentoDaLinha(df_oficial[melhor[1]])))
              => (loc'.status = VerificarHomonimo /\ NaoEmitiu) ]_vars

\* C4, reached: a first candidate of score 90 whose document diverges left no row
C4_Witness ==
    /\ pc = "tabela"
    /\ ValidacaoTabela
    /\ n_linhas = 1
    /\ loc.passo = "avaliado"
    /\ loc.valida
    /\ loc.match[2][1] = 90 * loc.match[2][2]
    /\ ~loc.match_doc
    /\ loc.status = VerificarHomonimo
    /\ resultados = <<>>

\* C5: on route B when document validation is not requested, a candidate whose
\* best official name scores s >= 85 gets a row "Aprovado" exactly when
\* s >= 95, a row "Verificar grafia" exactly when 88 <= s < 95 and no row when
\* s < 88; a candidate with no official name of score >= 85 gets no row.
C5_LimiaresSemDocumento ==
    [][ (PassoTabela /\ ~usar_cpf)
        => \A nome \in {normalizar(str(NomeDoPasso))} :
           \A melhor \in {MelhorDe(nome)} :
              Len(nome) >= 4
              => IF melhor = Nenhum
                 THEN NaoEmitiu
                 ELSE /\ score_ge(melhor[2], 95)
                            => (Emitiu /\ Nova.status = Aprovado)
                      /\ (score_ge(melhor[2], 88) /\ ~score_ge(melhor[2], 95))
                            => (Emitiu /\ Nova.status = VerificarGrafia)
                      /\ ~score_ge(melhor[2], 88) => NaoEmitiu
                      /\ Emitiu => /\ Nova.aluno = str(NomeDoPasso)
                                   /\ Nova.nome = lista_nomes_oficial_orig[melhor[1]] ]_vars

\* C5, reached: a candidate of score exactly 88 got a row "Verificar grafia"
C5_Witness ==
    /\ pc = "tabela"
    /\ ~usar_cpf
    /\ loc.passo = "avaliado"
    /\ loc.match[2][1] = 88 * loc.match[2][2]
    /\ resultados # <<>>
    /\ resultados[Len(resultados)].status = VerificarGrafia
    /\ resultados[Len(resultados)].aluno = loc.nome_aluno_real

\* C6: on route A, a candidate whose normalized name has at least 4 characters
\* gets exactly one row when that name occurs verbatim in the normalized text,
\* and no row otherwise; the row carries the score 100.
C6_BuscaExata ==
    [][ PassoTexto
        => \A nome \in {normalizar(NomeDoPasso)} :
              Len(nome) >= 4
              => IF Ocorrencias(nome) # {}
                 THEN /\ Emitiu
                      /\ Nova.nome = nome
                      /\ Nova.similaridade = <<100, 0>>
                 ELSE NaoEmitiu ]_vars

\* C6, reached: a name one letter longer than the one in the text left no row
C6_Witness ==
    /\ pc = "texto"
    /\ n_linhas = 1
    /\ loc.passo = "avaliado"
    /\ loc.nome_busca = <<"M", "A", "R", "I", "A", " ", "S", "I", "L", "V", "A", "S">>
    /\ Ocorrencias(<<"M", "A", "R", "I", "A", " ", "S", "I", "L", "V", "A">>) # {}
    /\ resultados = <<>>

\* C7: on route A with document validation active, a candidate whose name is
\* found at offset i gets a row whose status is "Aprovado (Nome encontrado)"
\* when its document yields no fragments, and otherwise "Aprovado (Confirmado)"
\* when a fragment occurs among the digits of
\* text[max(0, i-50) : min(n, i+len(name)+50)] and "Verificar (CPF Divergente)"
\* when none does.
C7_JanelaDeContexto ==
    [][ (PassoTexto /\ ValidacaoTexto)
        => \A nome \in {normalizar(NomeDoPasso)} :
              (Len(nome) >= 4 /\ Ocorrencias(nome) # {})
              => \A i \in {Min(Ocorrencias(nome))} :
                 \A digitos \in {DigitosEntre(Max2(0, i - 50),
                                              Min2(Len(texto_pdf), i + Len(nome) + 50))} :
                 \A frags \in {obter_fragmentos_cpf(DocumentoDoPasso)} :
                    /\ Emitiu
                    /\ Nova.status =
                          IF frags = <<>> THEN AprovadoNomeEncontrado
                          ELSE IF \E k \in 1..Len(frags) :
                                    \E j \in 0..(Len(digitos) - Len(frags[k])) :
                                        SubSeq(digitos, j + 1, j + Len(frags[k])) = frags[k]
                          THEN AprovadoConfirmado
                          ELSE VerificarCpfDivergente ]_vars

\* C7, reached: the candidate's fragments lie just outside the window on both
\* sides, and its row says that the document diverges
C7_Witness ==
    /\ pc = "texto"
    /\ ValidacaoTexto
    /\ loc.passo = "avaliado"
    /\ loc.status = VerificarCpfDivergente
    /\ loc.contexto_numerico = <<"4", "9", "8">>
    /\ resultados # <<>>
    /\ resultados[Len(resultados)].status = VerificarCpfDivergente

\* the name of the candidate of a step, as the route normalizes it
NomeNormalizadoDoPasso ==
    IF RotaTexto THEN normalizar(NomeDoPasso) ELSE normalizar(str(NomeDoPasso))

\* C8: on both routes, a candidate whose normalized name has fewer than 4
\* characters adds no row, and the loop goes on: nothing is returned and the
\* program stays in the loop.
C8_NomesCurtos ==
    [][ ((PassoTabela \/ PassoTexto) /\ Len(NomeNormalizadoDoPasso) < 4)
        => /\ NaoEmitiu
           /\ loc'.passo = "continue"
           /\ pc' = pc
           /\ retorno' = retorno ]_vars

\* C8, reached: on route A a name of 3 characters that occurs in the text was
\* skipped, after a candidate that got a row
C8_Witness ==
    /\ pc = "texto"
    /\ n_linhas = 2
    /\ loc.passo = "continue"
    /\ loc.nome_busca = <<"R", "I", "A">>
    /\ Ocorrencias(<<"R", "I", "A">>) # {}
    /\ Len(resultados) = 1

\* C9: obter_fragmentos_cpf returns no fragment when its input has fewer than
\* 11 digits or is missing, and otherwise the 4 fragments at the positions
\* [0,3), [3,6), [6,9), [9,11) of the digits of the input.
C9_Fragmentos ==
    pc = "cpf_fim"
        => \A d \in {IF cpf = NaN THEN <<>>
                     ELSE SelectSeq(cpf, LAMBDA c :
                              c \in {"0", "1", "2", "3", "4", "5", "6", "7", "8", "9"})} :
              IF Len(d) < 11
              THEN fragmentos = <<>>
              ELSE fragmentos = <<SubSeq(d, 1, 3), SubSeq(d, 4, 6), SubSeq(d, 7, 9),
                                  SubSeq(d, 10, 11)>>

\* C9, reached: an input of separators and more than 11 digits gave 4 fragments
C9_Witness ==
    /\ pc = "cpf_fim"
    /\ Len(so_digitos(cpf)) > 11
    /\ Len(cpf) > Len(so_digitos(cpf))
    /\ Len(fragmentos) = 4
    /\ Len(fragmentos[4]) = 2

====
